---- MODULE Spec2Model ----
(***************************************************************************)
(* Model of robocorp.action_server._actions_import: import_action_package, *)
(* _get_robocorp_actions_version and _add_actions_to_db.                   *)
(*                                                                         *)
(* One import call is a process p walking through the stages of the code:  *)
(* path check, manifest read, provisioning, package construction, version  *)
(* probe, version gate, discovery listing, catalog lookup and the write    *)
(* transaction.  The catalog is the pair of tables (packages, actions).    *)
(***************************************************************************)
EXTENDS Integers, Sequences, FiniteSets, TLC

VARIABLES packages, actions, nextId, last, loc

vars == <<packages, actions, nextId, last, loc>>

(***************************************************************************)
(* Bounds of the model.                                                    *)
(***************************************************************************)
\* ids gen_uuid may hand out in one behaviour of the reconciliation
\* specification (Spec) and of the tool-output specification (SpecTools)
MaxIds == 6
MaxToolIds == 3
\* longest list of action records the discovery tool returns, in Spec and in
\* SpecTools
MaxActions == 2
MaxToolActions == 1
\* longest version tuple the probe prints
MaxVerLen == 3
\* most lines of a manifest file
MaxLines == 3

\* import calls; the sequential specification runs them one after another
Procs == {1}
\* two import calls side by side
Procs2 == {1, 2}

(***************************************************************************)
(* Input domains.                                                          *)
(***************************************************************************)
\* datadir, and the package directories handed to import_action_package
DataDir == <<"data">>
ImportPaths == {<<"data", "p">>, <<"ext", "q">>}
PathKinds == {"missing", "file", "dir"}
\* the optional `name` argument ("None": not given)
NameArgs == {"None", "p"}
ActionNames == {"a", "b"}
DocTexts == {"d1"}
\* which manifest file the directory holds
ManifestFiles == {"none", "conda.yaml", "action-server.yaml"}
\* the reconciliation specification imports managed packages
CoreManifestFiles == {"action-server.yaml"}
\* the lines a manifest file is made of: a comment, a blank line, the
\* dependencies key, a list item, an unterminated flow mapping
ManifestLines == {"# comment", "", "dependencies:", "- robocorp-actions", "{"}
\* raw texts of a manifest file: invalid YAML, a list, a dict without
\* dependencies, a dict with dependencies, the same with a comment and a blank
\* line
ManifestTexts ==
  {<<"{">>, <<"- robocorp-actions">>, <<"dependencies:">>,
   <<"dependencies:", "- robocorp-actions">>,
   <<"# comment", "dependencies:", "", "- robocorp-actions">>}
\* the reconciliation specification reads one valid text and the invalid ones
CoreManifestTexts ==
  {<<"{">>, <<"- robocorp-actions">>, <<"dependencies:">>,
   <<"dependencies:", "- robocorp-actions">>}
\* components of the version tuples the probe prints
VerComps == {0, 6, 7}

Last(s) == s[Len(s)]

Max(S) == CHOOSE x \in S : \A y \in S : y <= x

Min(S) == CHOOSE x \in S : \A y \in S : x <= y

RECURSIVE SeqsUpTo(_, _)
\* all sequences over S of length 0..n
SeqsUpTo(S, n) ==
  IF n = 0 THEN {<<>>}
  ELSE LET shorter == SeqsUpTo(S, n - 1)
       IN  shorter \cup {Append(s, x) : s \in {t \in shorter : Len(t) = n - 1}, x \in S}

\* db.insert(row)
DbInsert(table, row) == table \cup {row}

(***************************************************************************)
(* Paths (pathlib).                                                        *)
(***************************************************************************)
IsPrefix(a, b) == Len(a) <= Len(b) /\ SubSeq(b, 1, Len(a)) = a

\* Path.relative_to with the fallback of the code: relative when the path is
\* under base, else the absolute path.  as_posix() of the result.
Relativize(path, base) ==
  IF IsPrefix(base, path)
  THEN [abs |-> FALSE, parts |-> SubSeq(path, Len(base) + 1, Len(path))]
  ELSE [abs |-> TRUE, parts |-> path]

(***************************************************************************)
(* json.dumps: the serialized form of a value is not the value.            *)
(***************************************************************************)
JsonDumps(x) == <<"json", x>>

(***************************************************************************)
(* Manifest: yaml.safe_load, repr, create_hash.                            *)
(***************************************************************************)
RECURSIVE Significant(_)
\* the lines of a text the YAML scanner hands to the parser: comments and
\* blank lines are dropped
Significant(text) ==
  IF text = <<>> THEN <<>>
  ELSE IF Head(text) \in {"# comment", ""} THEN Significant(Tail(text))
  ELSE <<Head(text)>> \o Significant(Tail(text))

\* the document the parser builds from the lines: an error for a flow mapping
\* that is not closed or a key after list items; None for no line; a dict whose
\* "dependencies" value is the items after the key (of a repeated key the last
\* one stays); a list for items alone
ParseLines(lines) ==
  IF \E i \in 1..Len(lines) : lines[i] = "{"
  THEN [kind |-> "error", dependencies |-> <<>>]
  ELSE IF lines = <<>> THEN [kind |-> "null", dependencies |-> <<>>]
  ELSE IF lines[1] = "dependencies:"
  THEN LET key == Max({i \in 1..Len(lines) : lines[i] = "dependencies:"})
       IN  [kind |-> "dict", dependencies |-> SubSeq(lines, key + 1, Len(lines))]
  ELSE IF \E i \in 1..Len(lines) : lines[i] = "dependencies:"
  THEN [kind |-> "error", dependencies |-> <<>>]
  ELSE [kind |-> "list", dependencies |-> <<>>]

\* a loader that takes every line of the text for a line of the document
YamlLoadEveryLine(text) == ParseLines(text)

\* line 95: yaml.safe_load(stream)
YamlLoad(text) == ParseLines(Significant(text))

Repr(contents) == <<"dependencies">> \o contents.dependencies

CreateHash(s) == <<"hash">> \o s

\* a hash of an empty manifest in place of the sentinel
UnmanagedHashed == CreateHash(<<"dependencies">>)

\* line 91
Unmanaged == <<"<unmanaged>">>

EmptyEnv == "{}"

ProvisionResults == {"failure", "noresult", "env1"}

(***************************************************************************)
(* Error kinds raised by an import call.                                   *)
(***************************************************************************)
ErrClass(e) ==
  CASE e \in {"PathMissing", "PathNotDir", "ManifestInvalidYaml", "ManifestNotDict",
              "ManifestNoDependencies", "ProvisionFailed", "ProvisionNoResult"}
         -> "ActionPackageError"
    [] e \in {"FrozenNoManifest", "VersionTooOldManifest", "VersionTooOldNoManifest",
              "LintFailure"}
         -> "ActionServerValidationError"
    [] e \in {"VersionProbeFailed", "ListFailed", "JsonLoadFailed"} -> "RuntimeError"
    [] e \in {"UnicodeDecodeError", "KeyError", "TypeError", "StorageError"} -> e
    [] OTHER -> "none"

(***************************************************************************)
(* Local state of an import call.                                          *)
(***************************************************************************)
NoRecs == <<>>

\* a piece of the tool's stdout: its JSON shape, its lint_result, its records
StdoutShape(kind, lint, recs) == [kind |-> kind, lint |-> lint, recs |-> recs]

\* no subprocess result held
NoRun == [exit |-> 0, stdout |-> StdoutShape("-", "-", NoRecs), stderr |-> FALSE]

NoPath == <<>>

IdleLoc ==
  [pc |-> "idle", path |-> NoPath, name |-> "None", disable |-> FALSE,
   yaml |-> "none", condahash |-> <<>>, use_env |-> "None",
   pkg |-> {}, v |-> <<>>, acts |-> <<>>, existing |-> {}, by_name |-> {},
   popen |-> NoRun, all_actions |-> {}, seen |-> {}, k |-> 0, txp |-> {}, txa |-> {},
   err |-> "none", ran |-> <<>>, writes |-> 0, pre_p |-> {}, pre_a |-> {},
   frozen |-> {}, text |-> <<>>]

Init ==
  /\ packages = {}
  /\ actions = {}
  /\ nextId = 1
  /\ last = [n \in {"p", "q"} |-> <<>>]
  /\ loc = [p \in Procs |-> IdleLoc]

\* An exception leaves the call: the locals are gone; what stays is what the
\* exception carries (its kind and, in its message, the version or the captured
\* output) and the record of the call.
Raised(l, e) ==
  [IdleLoc EXCEPT !.pc = "failed", !.err = e, !.v = l.v, !.popen = l.popen,
                  !.ran = l.ran, !.writes = l.writes, !.pre_p = l.pre_p,
                  !.pre_a = l.pre_a, !.frozen = l.frozen]

Fail(p, e) ==
  loc' = [loc EXCEPT ![p] = Raised(loc[p], e)]

(***************************************************************************)
(* import_action_package                                                   *)
(***************************************************************************)
\* The call: arguments are bound and the catalog as it is now is remembered.
Call(p, budget) ==
  /\ loc[p].pc = "idle"
  /\ nextId <= budget
  /\ \E path \in ImportPaths, name \in NameArgs, dni \in BOOLEAN :
       loc' = [loc EXCEPT ![p] = [IdleLoc EXCEPT !.pc = "path", !.path = path,
                                    !.name = name, !.disable = dni,
                                    !.pre_p = packages, !.pre_a = actions]]
  /\ UNCHANGED <<packages, actions, nextId, last>>

\* lines 54-62: the import path must exist and be a directory
CheckPath(p) ==
  /\ loc[p].pc = "path"
  /\ \E kind \in PathKinds :
       CASE kind = "missing" -> Fail(p, "PathMissing")
         [] kind = "file"    -> Fail(p, "PathNotDir")
         [] kind = "dir"     -> loc' = [loc EXCEPT ![p].pc = "manifest"]
  /\ UNCHANGED <<packages, actions, nextId, last>>

\* lines 68-116: locate and validate the manifest; compute the hash.
\* is_frozen() is called only when neither manifest file exists; `frozen`
\* holds what it returned.
ReadManifest(p, files, texts) ==
  /\ loc[p].pc = "manifest"
  /\ \E file \in files, frozen \in BOOLEAN, text \in texts :
       LET contents == YamlLoad(text)
           ran1 == Append(loc[p].ran, "manifest")
       IN  IF file = "none"
           THEN IF frozen
                THEN loc' = [loc EXCEPT ![p] =
                               Raised([loc[p] EXCEPT !.ran = ran1, !.frozen = {TRUE}],
                                      "FrozenNoManifest")]
                ELSE loc' = [loc EXCEPT ![p].pc = "package", ![p].yaml = file,
                                        ![p].condahash = Unmanaged,
                                        ![p].use_env = EmptyEnv, ![p].ran = ran1,
                                        ![p].frozen = {FALSE}]
           ELSE CASE contents.kind = "error" ->
                       loc' = [loc EXCEPT ![p] =
                                 Raised([loc[p] EXCEPT !.ran = ran1], "ManifestInvalidYaml")]
                  [] contents.kind # "error" /\ contents.kind # "dict" ->
                       loc' = [loc EXCEPT ![p] =
                                 Raised([loc[p] EXCEPT !.ran = ran1], "ManifestNotDict")]
                  [] contents.kind = "dict" /\ contents.dependencies = <<>> ->
                       loc' = [loc EXCEPT ![p] =
                                 Raised([loc[p] EXCEPT !.ran = ran1], "ManifestNoDependencies")]
                  [] OTHER ->
                       loc' = [loc EXCEPT ![p].pc = "provision", ![p].yaml = file,
                                          ![p].condahash = CreateHash(Repr(contents)),
                                          ![p].text = text, ![p].ran = ran1]
  /\ UNCHANGED <<packages, actions, nextId, last>>

\* lines 122-134: rcc.create_env_and_get_vars(action_server_yaml, condahash);
\* the manifest is not read again after it
Provision(p) ==
  /\ loc[p].pc = "provision"
  /\ \E env_info \in ProvisionResults :
       LET ran1 == Append(loc[p].ran, "provision")
       IN  CASE env_info = "failure" ->
                  loc' = [loc EXCEPT ![p] =
                            Raised([loc[p] EXCEPT !.ran = ran1], "ProvisionFailed")]
             [] env_info = "noresult" ->
                  loc' = [loc EXCEPT ![p] =
                            Raised([loc[p] EXCEPT !.ran = ran1], "ProvisionNoResult")]
             [] OTHER ->
                  loc' = [loc EXCEPT ![p].pc = "package", ![p].use_env = env_info,
                                     ![p].text = <<>>, ![p].ran = ran1]
  /\ UNCHANGED <<packages, actions, nextId, last>>

\* the ActionPackage stored as soon as it is built, before the tool has been
\* probed and asked for the actions
BuildPackageAndStore(p) ==
  /\ loc[p].pc = "package"
  /\ LET directory_path == Relativize(loc[p].path, DataDir)
         name == IF loc[p].name = "None" THEN Last(loc[p].path) ELSE loc[p].name
         action_package == [id |-> nextId, name |-> name,
                            directory |-> directory_path,
                            conda_hash |-> loc[p].condahash,
                            env_json |-> JsonDumps(loc[p].use_env)]
     IN  /\ loc' = [loc EXCEPT ![p].pc = "probe", ![p].name = name,
                               ![p].pkg = {action_package}]
         /\ packages' = DbInsert(packages, action_package)
  /\ nextId' = nextId + 1
  /\ UNCHANGED <<actions, last>>

\* lines 137-160: directory, fresh package id, default name, ActionPackage(...)
BuildPackage(p) ==
  /\ loc[p].pc = "package"
  /\ LET directory_path == Relativize(loc[p].path, DataDir)
         name == IF loc[p].name = "None" THEN Last(loc[p].path) ELSE loc[p].name
         action_package == [id |-> nextId, name |-> name,
                            directory |-> directory_path,
                            conda_hash |-> loc[p].condahash,
                            env_json |-> JsonDumps(loc[p].use_env)]
     IN  loc' = [loc EXCEPT ![p].pc = "probe", ![p].name = name,
                            ![p].pkg = {action_package}]
  /\ nextId' = nextId + 1
  /\ UNCHANGED <<packages, actions, last>>

(***************************************************************************)
(* _get_robocorp_actions_version and the version gate                      *)
(***************************************************************************)
\* a token of the probe's stdout between two dots: an integer, or text int()
\* rejects
Garbage == [isint |-> FALSE, val |-> 0]

ProbeTokens == {[isint |-> TRUE, val |-> c] : c \in VerComps} \cup {Garbage}

\* what the probe subprocess does: it cannot be launched, exits non-zero, or
\* prints tokens separated by dots (split(".") yields at least one token)
ProbeRuns ==
  {[status |-> s, tokens |-> <<Garbage>>] : s \in {"launch_failure", "nonzero_exit"}}
    \cup {[status |-> "exit0", tokens |-> t] :
            t \in SeqsUpTo(ProbeTokens, MaxVerLen) \ {<<>>}}
    \cup {[status |-> "exit0", tokens |-> <<[isint |-> TRUE, val |-> 0],
                                            [isint |-> TRUE, val |-> 1],
                                            [isint |-> TRUE, val |-> 0]>>]}

IntTokens(v) == [i \in 1..Len(v) |-> [isint |-> TRUE, val |-> v[i]]]

\* the probe runs the reconciliation specification draws from: a probe that
\* fails, a version below the minimum and one that passes
CoreProbeRuns ==
  {[status |-> "nonzero_exit", tokens |-> <<Garbage>>],
   [status |-> "exit0", tokens |-> IntTokens(<<0, 0, 6>>)],
   [status |-> "exit0", tokens |-> IntTokens(<<0, 0, 7>>)]}

\* lines 214-226: tuple(int(x) for x in output.split(".")), any exception is
\* the one RuntimeError
GetRobocorpActionsVersion(run) ==
  IF run.status # "exit0" \/ \E i \in 1..Len(run.tokens) : ~run.tokens[i].isint
  THEN [ok |-> FALSE, v |-> <<>>]
  ELSE [ok |-> TRUE, v |-> [i \in 1..Len(run.tokens) |-> run.tokens[i].val]]

\* line 166
expected_version == <<0, 0, 7>>

RECURSIVE TupleLessOrEqual(_, _)
\* a <= b in place of a < b
TupleLessOrEqual(a, b) ==
  IF a = <<>> THEN TRUE
  ELSE IF b = <<>> THEN FALSE
  ELSE IF a[1] # b[1] THEN a[1] < b[1]
  ELSE TupleLessOrEqual(Tail(a), Tail(b))

RECURSIVE TupleLess(_, _)
\* Python's a < b on tuples of integers: the first differing component decides,
\* and when one is a prefix of the other the shorter one is the smaller
TupleLess(a, b) ==
  IF a = <<>> THEN b # <<>>
  ELSE IF b = <<>> THEN FALSE
  ELSE IF a[1] # b[1] THEN a[1] < b[1]
  ELSE TupleLess(Tail(a), Tail(b))

\* a probe that is launched again when it has failed
ProbeAgain(p, runs) ==
  /\ loc[p].pc = "probe"
  /\ \E run \in runs :
       LET got == GetRobocorpActionsVersion(run)
           ran1 == Append(loc[p].ran, "probe")
       IN  IF got.ok
           THEN loc' = [loc EXCEPT ![p].pc = "gate", ![p].v = got.v, ![p].ran = ran1]
           ELSE IF \A i \in 1..Len(loc[p].ran) : loc[p].ran[i] # "probe"
           THEN loc' = [loc EXCEPT ![p].ran = ran1]
           ELSE loc' = [loc EXCEPT ![p] =
                          Raised([loc[p] EXCEPT !.ran = ran1], "VersionProbeFailed")]
  /\ UNCHANGED <<packages, actions, nextId, last>>

\* line 165: v = _get_robocorp_actions_version(env, import_path)
Probe(p, runs) ==
  /\ loc[p].pc = "probe"
  /\ \E run \in runs :
       LET got == GetRobocorpActionsVersion(run)
           ran1 == Append(loc[p].ran, "probe")
       IN  IF got.ok
           THEN loc' = [loc EXCEPT ![p].pc = "gate", ![p].v = got.v, ![p].ran = ran1]
           ELSE loc' = [loc EXCEPT ![p] =
                          Raised([loc[p] EXCEPT !.ran = ran1], "VersionProbeFailed")]
  /\ UNCHANGED <<packages, actions, nextId, last>>

\* lines 166-182: if v < expected_version: raise, the message depending on
\* action_server_yaml_exists
VersionGate(p) ==
  /\ loc[p].pc = "gate"
  /\ IF TupleLess(loc[p].v, expected_version)
     THEN IF loc[p].yaml # "none"
          THEN Fail(p, "VersionTooOldManifest")
          ELSE Fail(p, "VersionTooOldNoManifest")
     ELSE loc' = [loc EXCEPT ![p].pc = "list", ![p].v = <<>>]
  /\ UNCHANGED <<packages, actions, nextId, last>>

(***************************************************************************)
(* _add_actions_to_db: the discovery listing                               *)
(***************************************************************************)
\* an action record of the tool's JSON array
ActionRecords ==
  {[name |-> n, docs |-> d, file |-> <<"data", "p", "actions.py">>, line |-> 1,
    input_schema |-> "in", output_schema |-> "out", options |-> "None"] :
     n \in ActionNames, d \in DocTexts}

\* what the tool wrote to stdout.
\*   notjson          text json.loads rejects with JSONDecodeError
\*   badbytes         bytes that are not UTF-8
\*   scalar           a JSON value that is neither array nor object (null, 3)
\*   array            a JSON array of complete action records
\*   array_incomplete a JSON array with a record that misses a required key
\*   object           a JSON object; lint tells what its lint_result is:
\*     empty_object   the object is {}
\*     absent         no lint_result key
\*     notdict        lint_result is not an object
\*     unformattable  lint_result is an object format_lint_results returns None for
\*     violations     lint_result is an object format_lint_results renders
LintShapes == {"empty_object", "absent", "notdict", "unformattable", "violations"}

Stdouts(maxrecs) ==
  {StdoutShape(k, "-", NoRecs) : k \in {"notjson", "badbytes", "scalar", "array_incomplete"}}
    \cup {StdoutShape("object", l, NoRecs) : l \in LintShapes}
    \cup {StdoutShape("array", "-", r) : r \in SeqsUpTo(ActionRecords, maxrecs)}

ExitCodes == {0, 1, 2}

\* robocorp.actions._lint_action.format_lint_results: a message, or None
FormatLintResults(lint) == IF lint = "violations" THEN "message" ELSE "None"

\* the non-zero exit without the look at the lint result
ListFailureWithoutLint(exit, stdout) == "ListFailed"

\* lines 262-287: the non-zero exit
ListFailure(exit, stdout) ==
  IF /\ exit = 1
     /\ stdout.kind = "object"
     /\ stdout.lint \in {"unformattable", "violations"}
     /\ FormatLintResults(stdout.lint) # "None"
  THEN "LintFailure"
  ELSE "ListFailed"

\* lines 294-324: json.loads of the stdout of a run that exited 0, and the
\* loop over the loaded value
LoadFailure(stdout) ==
  CASE stdout.kind = "notjson"  -> "JsonLoadFailed"
    [] stdout.kind = "badbytes" -> "UnicodeDecodeError"
    [] stdout.kind = "scalar"   -> "TypeError"
    [] stdout.kind = "object"   -> IF stdout.lint = "empty_object" THEN "none" ELSE "TypeError"
    [] stdout.kind = "array_incomplete" -> "KeyError"
    [] OTHER -> "none"

\* output on stderr taken for a failure, whatever the exit code
ListOutcomeStderrFatal(exit, stdout, stderr) ==
  IF exit # 0 \/ stderr THEN ListFailure(exit, stdout) ELSE LoadFailure(stdout)

\* lines 261-299: the error of the listing, "none" when it yields actions
ListOutcome(exit, stdout, stderr) ==
  IF exit # 0 THEN ListFailure(exit, stdout) ELSE LoadFailure(stdout)

\* lines 303-323: Action(...) of one record
MakeAction(fields, id, package_id, import_path) ==
  [id |-> id, action_package_id |-> package_id, name |-> fields.name,
   docs |-> fields.docs, file |-> Relativize(fields.file, import_path),
   lineno |-> fields.line, input_schema |-> JsonDumps(fields.input_schema),
   output_schema |-> JsonDumps(fields.output_schema), enabled |-> TRUE,
   is_consequential |-> fields.options]

\* lines 246-261: the list command runs to its end; stdout and stderr
\* captured.  skip_lint only appends --skip-lint to the command line: with or
\* without it the run is one of `runs`.
ListRuns(maxrecs) ==
  {[exit |-> e, stdout |-> o, stderr |-> w] :
     e \in ExitCodes, o \in Stdouts(maxrecs), w \in BOOLEAN}

\* the list runs the reconciliation specification draws from: every array of
\* records, a lint failure and a hard failure
CoreListRuns(maxrecs) ==
  {[exit |-> 0, stdout |-> StdoutShape("array", "-", r), stderr |-> FALSE] :
     r \in SeqsUpTo(ActionRecords, maxrecs)}
    \cup {[exit |-> 1, stdout |-> StdoutShape("object", "violations", NoRecs),
           stderr |-> TRUE],
          [exit |-> 2, stdout |-> StdoutShape("notjson", "-", NoRecs), stderr |-> TRUE]}

\* the ids left for the actions of this call
IdsLeft(budget) == IF budget + 1 - nextId < 0 THEN 0 ELSE budget + 1 - nextId

RunList(p, runs, budget) ==
  /\ loc[p].pc = "list"
  /\ \E run \in runs :
       /\ Len(run.stdout.recs) <= IdsLeft(budget)
       /\ loc' = [loc EXCEPT ![p].pc = "listed", ![p].popen = run,
                             ![p].ran = Append(loc[p].ran, "list")]
  /\ UNCHANGED <<packages, actions, nextId, last>>

\* lines 262-324: classify the result; on success build the Action objects,
\* each with a fresh id and the id of the ActionPackage object of this call
ClassifyList(p) ==
  /\ loc[p].pc = "listed"
  /\ LET run == loc[p].popen
         e == ListOutcome(run.exit, run.stdout, run.stderr)
         recs == run.stdout.recs
         pkg == CHOOSE x \in loc[p].pkg : TRUE
     IN  IF e # "none"
         THEN /\ Fail(p, e)
              /\ UNCHANGED nextId
         ELSE /\ loc' = [loc EXCEPT ![p].pc = "lookup", ![p].popen = NoRun,
                           ![p].acts = [i \in 1..Len(recs) |->
                                          MakeAction(recs[i], nextId + i - 1, pkg.id,
                                                     loc[p].path)]]
              /\ nextId' = nextId + Len(recs)
  /\ UNCHANGED <<packages, actions, last>>

(***************************************************************************)
(* The catalog: typed insert, update-by-id and select of the storage        *)
(* engine, and its transaction scope.                                       *)
(***************************************************************************)
\* update_by_id(cls, id, fields): the row with this id gets the given fields
DbUpdateById(table, id, fields) ==
  {IF r.id = id
   THEN [f \in DOMAIN r |-> IF f \in DOMAIN fields THEN fields[f] ELSE r[f]]
   ELSE r : r \in table}

\* asdict(obj) without its "id" key
AsDictWithoutId(obj) == [f \in (DOMAIN obj) \ {"id"} |-> obj[f]]

\* db.first(ActionPackage, "... WHERE name = ?"): the first stored row of that
\* name, none (KeyError) when there is no such row
DbFirstPackageByName(table, name) ==
  LET rows == {r \in table : r.name = name}
  IN  IF rows = {} THEN {} ELSE {CHOOSE r \in rows : r.id = Min({x.id : x \in rows})}

\* db.select(Action, "... WHERE action_package_id = ?")
DbSelectActionsOf(table, package_id) == {r \in table : r.action_package_id = package_id}

\* lines 354-356: the dict name -> action; of two rows with one name the one
\* read last stays
ExistingActionNameToAction(existing_actions) ==
  {r \in existing_actions :
     r.id = Max({x.id : x \in {y \in existing_actions : y.name = r.name}})}

(***************************************************************************)
(* _add_actions_to_db: reconciliation                                      *)
(***************************************************************************)
\* a lookup that never finds the stored row
LookupFindsNothing(p) ==
  /\ loc[p].pc = "lookup"
  /\ loc' = [loc EXCEPT ![p].pc = "begin_new",
                        ![p].ran = Append(loc[p].ran, "reconcile")]
  /\ UNCHANGED <<packages, actions, nextId, last>>

\* lines 326-361: look the package up by name; for an existing package read
\* its actions, and all actions when disabling was asked for
Lookup(p) ==
  /\ loc[p].pc = "lookup"
  /\ LET existing == DbFirstPackageByName(packages, loc[p].name)
     IN  IF existing = {}
         THEN loc' = [loc EXCEPT ![p].pc = "begin_new",
                                 ![p].ran = Append(loc[p].ran, "reconcile")]
         ELSE LET existing_action_package == CHOOSE x \in existing : TRUE
                  existing_actions ==
                    DbSelectActionsOf(actions, existing_action_package.id)
              IN  loc' = [loc EXCEPT
                            ![p].pc = "begin_update",
                            ![p].existing = existing,
                            ![p].by_name = ExistingActionNameToAction(existing_actions),
                            ![p].all_actions = IF loc[p].disable THEN actions ELSE {},
                            ![p].seen = {},
                            ![p].ran = Append(loc[p].ran, "reconcile")]
  /\ UNCHANGED <<packages, actions, nextId, last>>

\* no other call is inside its write transaction
NoOtherInTransaction(p) ==
  \A q \in (DOMAIN loc) \ {p} :
    loc[q].pc \notin {"insert_package", "insert_actions", "update_package",
                      "update_actions", "disable"}

\* `with db.transaction():` is entered: the writes that follow are applied to
\* the transaction's view of the tables.  The storage engine runs one write
\* transaction at a time: a call enters its own when no other call is in one.
BeginTransaction(p) ==
  /\ loc[p].pc \in {"begin_new", "begin_update"}
  /\ NoOtherInTransaction(p)
  /\ loc' = [loc EXCEPT ![p].pc = IF loc[p].pc = "begin_new" THEN "insert_package"
                                  ELSE "update_package",
                        ![p].txp = packages, ![p].txa = actions, ![p].k = 1]
  /\ UNCHANGED <<packages, actions, nextId, last>>

\* the package row written before the transaction is entered, so that a
\* rollback does not undo it
InsertPackageOutsideTransaction(p) ==
  /\ loc[p].pc = "insert_package"
  /\ packages' = DbInsert(packages, CHOOSE x \in loc[p].pkg : TRUE)
  /\ loc' = [loc EXCEPT ![p].pc = "insert_actions", ![p].writes = loc[p].writes + 1,
                        ![p].txp = DbInsert(loc[p].txp, CHOOSE x \in loc[p].pkg : TRUE)]
  /\ UNCHANGED <<actions, nextId, last>>

\* line 337: db.insert(action_package)
InsertPackage(p) ==
  /\ loc[p].pc = "insert_package"
  /\ loc' = [loc EXCEPT ![p].pc = "insert_actions", ![p].writes = loc[p].writes + 1,
                        ![p].txp = DbInsert(loc[p].txp, CHOOSE x \in loc[p].pkg : TRUE)]
  /\ UNCHANGED <<packages, actions, nextId, last>>

\* an insert that skips a discovered action whose name the new package
\* already has
InsertActionUnlessNamed(p) ==
  /\ loc[p].pc = "insert_actions"
  /\ loc[p].k <= Len(loc[p].acts)
  /\ loc' = [loc EXCEPT ![p].k = loc[p].k + 1, ![p].writes = loc[p].writes + 1,
                        ![p].txa = IF \E r \in loc[p].txa :
                                        /\ r.action_package_id =
                                             loc[p].acts[loc[p].k].action_package_id
                                        /\ r.name = loc[p].acts[loc[p].k].name
                                   THEN loc[p].txa
                                   ELSE DbInsert(loc[p].txa, loc[p].acts[loc[p].k])]
  /\ UNCHANGED <<packages, actions, nextId, last>>

\* lines 338-340: db.insert(action) for the next discovered action
InsertAction(p) ==
  /\ loc[p].pc = "insert_actions"
  /\ loc[p].k <= Len(loc[p].acts)
  /\ loc' = [loc EXCEPT ![p].k = loc[p].k + 1, ![p].writes = loc[p].writes + 1,
                        ![p].txa = DbInsert(loc[p].txa, loc[p].acts[loc[p].k])]
  /\ UNCHANGED <<packages, actions, nextId, last>>

\* the update without `del new_action_package_as_dict["id"]`: the stored row
\* takes the fresh id too
UpdatePackageWithId(p) ==
  /\ loc[p].pc = "update_package"
  /\ LET existing_action_package == CHOOSE x \in loc[p].existing : TRUE
         new_action_package == CHOOSE x \in loc[p].pkg : TRUE
     IN  loc' = [loc EXCEPT ![p].pc = "update_actions",
                            ![p].writes = loc[p].writes + 1,
                            ![p].txp = (loc[p].txp \ {existing_action_package})
                                         \cup {new_action_package}]
  /\ UNCHANGED <<packages, actions, nextId, last>>

\* lines 344-346, 364-368: the stored package row gets every field of the new
\* ActionPackage but the id
UpdatePackage(p) ==
  /\ loc[p].pc = "update_package"
  /\ LET existing_action_package == CHOOSE x \in loc[p].existing : TRUE
         new_action_package_as_dict == AsDictWithoutId(CHOOSE x \in loc[p].pkg : TRUE)
     IN  loc' = [loc EXCEPT ![p].pc = "update_actions",
                            ![p].writes = loc[p].writes + 1,
                            ![p].txp = DbUpdateById(loc[p].txp, existing_action_package.id,
                                                    new_action_package_as_dict)]
  /\ UNCHANGED <<packages, actions, nextId, last>>

\* the loop without `action.action_package_id = existing_action_package.id`:
\* the action is written with the package id generated for this call
ReconcileActionKeepingPackageId(p) ==
  /\ loc[p].pc = "update_actions"
  /\ loc[p].k <= Len(loc[p].acts)
  /\ LET action == loc[p].acts[loc[p].k]
         found == {r \in loc[p].by_name : r.name = action.name}
     IN  IF found # {}
         THEN LET existing_action == CHOOSE x \in found : TRUE
              IN  loc' = [loc EXCEPT
                            ![p].k = loc[p].k + 1,
                            ![p].writes = loc[p].writes + 1,
                            ![p].txa = DbUpdateById(loc[p].txa, existing_action.id,
                                                    AsDictWithoutId(action)),
                            ![p].seen = loc[p].seen \cup {existing_action.id}]
         ELSE loc' = [loc EXCEPT
                        ![p].k = loc[p].k + 1,
                        ![p].writes = loc[p].writes + 1,
                        ![p].txa = DbInsert(loc[p].txa, action),
                        ![p].seen = loc[p].seen \cup {action.id}]
  /\ UNCHANGED <<packages, actions, nextId, last>>

\* lines 372-386: the next discovered action updates the stored action of its
\* name, or is inserted
ReconcileAction(p) ==
  /\ loc[p].pc = "update_actions"
  /\ loc[p].k <= Len(loc[p].acts)
  /\ LET existing_action_package == CHOOSE x \in loc[p].existing : TRUE
         action == [loc[p].acts[loc[p].k] EXCEPT
                      !.action_package_id = existing_action_package.id]
         found == {r \in loc[p].by_name : r.name = action.name}
     IN  IF found # {}
         THEN LET existing_action == CHOOSE x \in found : TRUE
              IN  loc' = [loc EXCEPT
                            ![p].k = loc[p].k + 1,
                            ![p].writes = loc[p].writes + 1,
                            ![p].txa = DbUpdateById(loc[p].txa, existing_action.id,
                                                    AsDictWithoutId(action)),
                            ![p].seen = loc[p].seen \cup {existing_action.id}]
         ELSE loc' = [loc EXCEPT
                        ![p].k = loc[p].k + 1,
                        ![p].writes = loc[p].writes + 1,
                        ![p].txa = DbInsert(loc[p].txa, action),
                        ![p].seen = loc[p].seen \cup {action.id}]
  /\ UNCHANGED <<packages, actions, nextId, last>>

\* a disabling loop that skips every action
ToDisableNothing(l) == {r \in l.all_actions : FALSE}

\* the actions of the snapshot the disabling loop still has to write to
ToDisable(l) == {r \in l.all_actions : r.id \notin l.seen}

\* lines 372, 388: the loop over the discovered actions is over
EndOfActions(p) ==
  /\ loc[p].pc = "update_actions"
  /\ loc[p].k > Len(loc[p].acts)
  /\ loc' = [loc EXCEPT ![p].pc = "disable"]
  /\ UNCHANGED <<packages, actions, nextId, last>>

\* lines 388-392: the next action of the snapshot that was not seen is disabled
DisableAction(p) ==
  /\ loc[p].pc = "disable"
  /\ loc[p].disable
  /\ ToDisable(loc[p]) # {}
  /\ LET action == CHOOSE r \in ToDisable(loc[p]) :
                     r.id = Min({x.id : x \in ToDisable(loc[p])})
     IN  loc' = [loc EXCEPT
                   ![p].writes = loc[p].writes + 1,
                   ![p].txa = DbUpdateById(loc[p].txa, action.id, [enabled |-> FALSE]),
                   ![p].all_actions = loc[p].all_actions \ {action}]
  /\ UNCHANGED <<packages, actions, nextId, last>>

\* the fields of a discovered action as the tool reported them
Discovered(acts) ==
  [i \in 1..Len(acts) |-> [name |-> acts[i].name, docs |-> acts[i].docs]]

\* what an import call was given: directory, flag and discovered actions
ImportOf(l) ==
  [path |-> l.path, disable |-> l.disable, discovered |-> Discovered(l.acts)]

\* the `with db.transaction():` block ends normally: the writes are committed
\* and import_action_package returns
Commit(p) ==
  /\ \/ loc[p].pc = "insert_actions" /\ loc[p].k > Len(loc[p].acts)
     \/ loc[p].pc = "disable" /\ (loc[p].disable => ToDisable(loc[p]) = {})
  /\ packages' = loc[p].txp
  /\ actions' = loc[p].txa
  /\ loc' = [loc EXCEPT ![p].pc = "done", ![p].txp = {}, ![p].txa = {}]
  /\ UNCHANGED <<nextId, last>>

\* a write of the transaction raises (a storage error): the block is left by
\* the exception, the transaction is rolled back and the error propagates
StorageFailure(p) ==
  /\ \/ loc[p].pc \in {"insert_package", "update_package"}
     \/ loc[p].pc \in {"insert_actions", "update_actions"} /\ loc[p].k <= Len(loc[p].acts)
     \/ loc[p].pc = "disable" /\ loc[p].disable /\ ToDisable(loc[p]) # {}
  /\ Fail(p, "StorageError")
  /\ UNCHANGED <<packages, actions, nextId, last>>

\* the call has returned or raised; the caller may issue the next import.
\* `last` keeps, per package name, what the latest successful import was given.
Return(p) ==
  /\ loc[p].pc \in {"done", "failed"}
  /\ loc' = [loc EXCEPT ![p] = IdleLoc]
  /\ last' = IF loc[p].pc = "done"
             THEN [last EXCEPT ![loc[p].name] = <<ImportOf(loc[p])>>]
             ELSE last
  /\ UNCHANGED <<packages, actions, nextId>>

Next == \E p \in Procs :
  \/ Call(p, MaxIds)
  \/ CheckPath(p)
  \/ ReadManifest(p, CoreManifestFiles, CoreManifestTexts)
  \/ Provision(p)
  \/ BuildPackage(p)
  \/ Probe(p, CoreProbeRuns)
  \/ VersionGate(p)
  \/ RunList(p, CoreListRuns(MaxActions), MaxIds)
  \/ ClassifyList(p)
  \/ Lookup(p)
  \/ BeginTransaction(p)
  \/ InsertPackage(p)
  \/ InsertAction(p)
  \/ UpdatePackage(p)
  \/ ReconcileAction(p)
  \/ EndOfActions(p)
  \/ DisableAction(p)
  \/ Commit(p)
  \/ StorageFailure(p)
  \/ Return(p)

Spec == Init /\ [][Next]_vars

\* The same program with every outcome of the two subprocesses, over a
\* smaller catalog.
NextTools == \E p \in Procs :
  \/ Call(p, MaxToolIds)
  \/ CheckPath(p)
  \/ ReadManifest(p, ManifestFiles, ManifestTexts)
  \/ Provision(p)
  \/ BuildPackage(p)
  \/ Probe(p, ProbeRuns)
  \/ VersionGate(p)
  \/ RunList(p, ListRuns(MaxToolActions), MaxToolIds)
  \/ ClassifyList(p)
  \/ Lookup(p)
  \/ BeginTransaction(p)
  \/ InsertPackage(p)
  \/ InsertAction(p)
  \/ UpdatePackage(p)
  \/ ReconcileAction(p)
  \/ EndOfActions(p)
  \/ DisableAction(p)
  \/ Commit(p)
  \/ StorageFailure(p)
  \/ Return(p)

SpecTools == Init /\ [][NextTools]_vars

\* every text of up to MaxLines lines
AllManifestTexts == SeqsUpTo(ManifestLines, MaxLines)

\* two calls for data/p that have passed the path check, the catalog empty
InitManifest ==
  /\ packages = {}
  /\ actions = {}
  /\ nextId = 1
  /\ last = [n \in {"p", "q"} |-> <<>>]
  /\ loc = [p \in Procs2 |-> [IdleLoc EXCEPT !.pc = "manifest",
                                              !.path = <<"data", "p">>]]

\* The two calls side by side, each from its manifest read to the end of its
\* provisioning, over every manifest text.
NextManifest == \E p \in Procs2 :
  \/ ReadManifest(p, ManifestFiles, AllManifestTexts)
  \/ Provision(p)
  \/ Return(p)

SpecManifest == InitManifest /\ [][NextManifest]_vars

\* the package row a first import of this directory stores
StoredPackage(id, path) ==
  [id |-> id, name |-> Last(path), directory |-> Relativize(path, DataDir),
   conda_hash |-> CreateHash(Repr(YamlLoad(<<"dependencies:", "- robocorp-actions">>))),
   env_json |-> JsonDumps("env1")]

\* the catalogs two overlapping calls start from: the empty one, and the one
\* after the first imports of data/p and ext/q, neither with an action
StartCatalogs ==
  {{}, {StoredPackage(1, <<"data", "p">>), StoredPackage(2, <<"ext", "q">>)}}

\* the locals of a call that has discovered its actions and is about to look
\* its package up: the ActionPackage of lines 146-160 and the Action objects
\* of lines 303-323, with the ids gen_uuid gave them
Discovering(path, name, dni, package_id, recs, first_action_id, pk, ac) ==
  LET use_name == IF name = "None" THEN Last(path) ELSE name
      text == <<"dependencies:", "- robocorp-actions">>
  IN  [IdleLoc EXCEPT
         !.pc = "lookup", !.path = path, !.name = use_name, !.disable = dni,
         !.yaml = "action-server.yaml",
         !.condahash = CreateHash(Repr(YamlLoad(text))),
         !.use_env = "env1",
         !.pkg = {[id |-> package_id, name |-> use_name,
                   directory |-> Relativize(path, DataDir),
                   conda_hash |-> CreateHash(Repr(YamlLoad(text))),
                   env_json |-> JsonDumps("env1")]},
         !.acts = [i \in 1..Len(recs) |->
                     MakeAction(recs[i], first_action_id + i - 1, package_id, path)],
         !.ran = <<"manifest", "provision", "probe", "list">>,
         !.pre_p = pk, !.pre_a = ac]

\* Two calls that were issued on the same catalog and have each discovered
\* their actions; ids 3 and 4 went to their packages, the next ones to their
\* actions.
InitOverlap ==
  /\ packages \in StartCatalogs
  /\ actions = {}
  /\ last = [n \in {"p", "q"} |-> <<>>]
  /\ \E path1, path2 \in ImportPaths, name1, name2 \in NameArgs, dni1, dni2 \in BOOLEAN,
        recs1, recs2 \in SeqsUpTo(ActionRecords, MaxToolActions) :
       /\ loc = [p \in Procs2 |->
                   IF p = 1
                   THEN Discovering(path1, name1, dni1, 3, recs1, 5, packages, actions)
                   ELSE Discovering(path2, name2, dni2, 4, recs2, 5 + Len(recs1),
                                    packages, actions)]
       /\ nextId = 5 + Len(recs1) + Len(recs2)

\* Two calls that overlap in _add_actions_to_db: the reads of a call before
\* its transaction are one step, its write transaction is one block no write
\* of the other call falls into, and the two interleave in every order.
NextOverlap == \E p \in Procs2 :
  \/ Lookup(p)
  \/ BeginTransaction(p)
  \/ InsertPackage(p)
  \/ InsertAction(p)
  \/ UpdatePackage(p)
  \/ ReconcileAction(p)
  \/ EndOfActions(p)
  \/ DisableAction(p)
  \/ Commit(p)
  \/ StorageFailure(p)
  \/ Return(p)

SpecOverlap == InitOverlap /\ [][NextOverlap]_vars

\* action records that differ in their docs too
DocVersions == {"d1", "d2"}

VersionedActionRecords ==
  {[name |-> n, docs |-> d, file |-> <<"data", "p", "actions.py">>, line |-> 1,
    input_schema |-> "in", output_schema |-> "out", options |-> "None"] :
     n \in ActionNames, d \in DocVersions}

\* the catalogs a re-import starts from: package p stored by the first import
\* of data/p (ids 1 and 2), without an action, with action a, and with action
\* a disabled by a later import
StoredCatalogs ==
  LET a == MakeAction(CHOOSE r \in ActionRecords : r.name = "a", 2, 1, <<"data", "p">>)
  IN  {<<{StoredPackage(1, <<"data", "p">>)}, rows>> :
         rows \in {{}, {a}, {[a EXCEPT !.enabled = FALSE]}}}

\* One call that has discovered its actions, on a catalog that holds package p.
InitReimport ==
  /\ \E catalog \in StoredCatalogs :
       /\ packages = catalog[1]
       /\ actions = catalog[2]
  /\ nextId = 4 + MaxActions
  /\ last = [n \in {"p", "q"} |-> <<>>]
  /\ \E path \in ImportPaths, name \in NameArgs, dni \in BOOLEAN,
        recs \in SeqsUpTo(VersionedActionRecords, MaxActions) :
       loc = [p \in Procs |-> Discovering(path, name, dni, 3, recs, 4, packages, actions)]

\* The lookup and the write transaction of that call.
NextReimport == \E p \in Procs :
  \/ Lookup(p)
  \/ BeginTransaction(p)
  \/ InsertPackage(p)
  \/ InsertAction(p)
  \/ UpdatePackage(p)
  \/ ReconcileAction(p)
  \/ EndOfActions(p)
  \/ DisableAction(p)
  \/ Commit(p)
  \/ StorageFailure(p)
  \/ Return(p)

SpecReimport == InitReimport /\ [][NextReimport]_vars

(***************************************************************************)
(* Properties of the reconciliation.                                       *)
(***************************************************************************)
Catalog == <<packages, actions>>

PreCatalog(l) == <<l.pre_p, l.pre_a>>

TransactionPcs ==
  {"insert_package", "insert_actions", "update_package", "update_actions", "disable"}

\* the names of the actions the tool discovered in this call
DiscoveredNames(l) == {l.acts[i].name : i \in 1..Len(l.acts)}

\* the row of a table with this id (a set: empty when there is none)
RowsWithId(table, id) == {r \in table : r.id = id}

\* C1: while the writes of one import are under way, and after one of them has
\* failed, the catalog is row for row the catalog from before the import: all
\* writes of either branch are inside the one transaction.
C1_Atomicity ==
  \A p \in Procs :
    (\/ loc[p].pc \in TransactionPcs
     \/ loc[p].pc = "failed" /\ loc[p].err = "StorageError")
      => Catalog = PreCatalog(loc[p])

\* a write failed after at least two writes of the same import had been made,
\* with a catalog that was not empty
C1_Witness ==
  \E p \in Procs :
    /\ loc[p].pc = "failed"
    /\ loc[p].err = "StorageError"
    /\ loc[p].writes >= 2
    /\ packages # {}

\* every row keeps existing and keeps its identity over a step
RowsPreserved ==
  /\ \A r \in packages : \E r2 \in packages' : r2.id = r.id /\ r2.name = r.name
  /\ \A a \in actions :
       \E a2 \in actions' :
         /\ a2.id = a.id
         /\ a2.action_package_id = a.action_package_id
         /\ a2.name = a.name

\* after a re-import the fresh ids of the call are not in the catalog for what
\* was already stored: the package, and every rediscovered action name
StoredIdsReused(l, pk, ac) ==
  (l.pc = "done" /\ l.existing # {}) =>
    /\ \A x \in l.pkg : RowsWithId(pk, x.id) = {}
    /\ \A e \in l.existing : \E r \in pk : r.id = e.id /\ r.name = l.name
    /\ \A i \in 1..Len(l.acts) :
         (\E old \in l.pre_a : \E e \in l.existing :
            old.action_package_id = e.id /\ old.name = l.acts[i].name)
           => RowsWithId(ac, l.acts[i].id) = {}

\* C2: over any sequence of imports no package row and no action row is ever
\* removed, a package id keeps its name, an action id keeps its owning package
\* and its name, and a re-import keeps the stored ids of the package and of the
\* rediscovered actions instead of the ids generated by the call.
C2_IdentityPreserved ==
  [][RowsPreserved /\ \A p \in Procs : StoredIdsReused(loc'[p], packages', actions')]_vars

\* a re-import of a stored package that rediscovered a stored action has
\* committed
C2_Witness ==
  \E p \in Procs :
    /\ loc[p].pc = "done"
    /\ loc[p].existing # {}
    /\ \E old \in loc[p].by_name : old.name \in DiscoveredNames(loc[p])
    /\ \E old \in loc[p].by_name : old \in loc[p].pre_a /\ RowsWithId(actions, old.id) # {}

\* the stored actions of the re-imported package the tool no longer reports
Vanished(l) ==
  {r \in l.pre_a :
     /\ \E e \in l.existing : r.action_package_id = e.id
     /\ r.name \notin DiscoveredNames(l)}

\* C3: after the re-import of an existing package, an action stored for it and
\* not discovered any more is, with disable_not_imported, the same row with
\* enabled = false and, without it, the same row unchanged.
C3_VanishedActions ==
  \A p \in Procs :
    (loc[p].pc = "done" /\ loc[p].existing # {}) =>
      \A r \in Vanished(loc[p]) :
        IF loc[p].disable
        THEN RowsWithId(actions, r.id) = {[r EXCEPT !.enabled = FALSE]}
        ELSE RowsWithId(actions, r.id) = {r}

\* a re-import with disable_not_imported has disabled an enabled action that
\* vanished
C3_Witness ==
  \E p \in Procs :
    /\ loc[p].pc = "done"
    /\ loc[p].existing # {}
    /\ loc[p].disable
    /\ \E r \in Vanished(loc[p]) : r.enabled

\* this call is a re-import of the package with the directory, the flag and the
\* discovered actions of the latest successful import of its name
SameImportAgain(l) ==
  /\ l.pc = "done"
  /\ l.existing # {}
  /\ last[l.name] = <<ImportOf(l)>>

\* C4: re-importing the same package directory with no change in the discovered
\* actions leaves the package id and every action id unchanged and leaves the
\* enabled flag of every action unchanged.
C4_ReimportChangesNothing ==
  \A p \in Procs :
    SameImportAgain(loc[p]) =>
      /\ {r.id : r \in packages} = {r.id : r \in loc[p].pre_p}
      /\ {a.id : a \in actions} = {a.id : a \in loc[p].pre_a}
      /\ \A a \in loc[p].pre_a :
           \A a2 \in RowsWithId(actions, a.id) : a2.enabled = a.enabled

\* C5: the catalog holds at most one package row per name; a later import of
\* a stored name adds no package row.
C5_OneRowPerName ==
  /\ \A r1, r2 \in packages : r1.name = r2.name => r1 = r2
  /\ \A p \in Procs :
       (loc[p].pc = "done" /\ \E r \in loc[p].pre_p : r.name = loc[p].name)
         => {r.id : r \in packages} = {r.id : r \in loc[p].pre_p}

\* a stored name has been imported again and the catalog holds two packages
C5_Witness ==
  \E p \in Procs :
    /\ loc[p].pc = "done"
    /\ \E r \in loc[p].pre_p : r.name = loc[p].name
    /\ Cardinality(packages) = 2

\* C6: no two action rows of one package have the same name.
C6_UniqueActionNames ==
  \A a1, a2 \in actions :
    (a1.action_package_id = a2.action_package_id /\ a1.name = a2.name) => a1 = a2

(***************************************************************************)
(* Properties of the stages before the reconciliation.                     *)
(***************************************************************************)
\* the stages this call has entered
StagesRan(l) == {l.ran[i] : i \in 1..Len(l.ran)}

PreReconcileErrors ==
  {"PathMissing", "PathNotDir", "FrozenNoManifest", "ManifestInvalidYaml",
   "ManifestNotDict", "ManifestNoDependencies", "ProvisionFailed", "ProvisionNoResult",
   "VersionProbeFailed", "VersionTooOldManifest", "VersionTooOldNoManifest",
   "LintFailure", "ListFailed", "JsonLoadFailed", "UnicodeDecodeError", "KeyError",
   "TypeError"}

\* C7: an import that fails at a stage before the reconciliation has not
\* reached the catalog (no lookup, no write) and leaves the catalog identical
\* to what it was before the call.
C7_FailFastNoMutation ==
  \A p \in Procs :
    (loc[p].pc = "failed" /\ loc[p].err \in PreReconcileErrors) =>
      /\ "reconcile" \notin StagesRan(loc[p])
      /\ loc[p].writes = 0
      /\ Catalog = PreCatalog(loc[p])

\* the listing of a later import failed on stdout that is not JSON, with a
\* package and an action already in the catalog
C7_Witness ==
  \E p \in Procs :
    /\ loc[p].pc = "failed"
    /\ loc[p].err = "JsonLoadFailed"
    /\ packages # {}
    /\ actions # {}

\* the stdout is a JSON object with a lint_result that is an object
HasLintResultObject(stdout) ==
  stdout.kind = "object" /\ stdout.lint \in {"unformattable", "violations"}

\* the call failed in the classification of this result of the list command
ListingFailed(l) == l.pc = "failed" /\ l.popen.stdout.kind # "-"

\* C8 as stated: exit code 1 with a JSON object holding a lint_result object
\* always fails with the lint-failure validation error.
C8_LintResultAlwaysLintFailure ==
  \A p \in Procs :
    (/\ ListingFailed(loc[p])
     /\ loc[p].popen.exit = 1
     /\ HasLintResultObject(loc[p].popen.stdout))
      => loc[p].err = "LintFailure"

\* C8 amended: exit code 1 with a JSON object holding a lint_result object
\* fails with the lint-failure validation error when format_lint_results
\* renders the lint_result, and with the generic runtime error when
\* format_lint_results returns None for it; such a run never proceeds.
C8_FormattedLintFailure ==
  \A p \in Procs :
    /\ (/\ ListingFailed(loc[p])
        /\ loc[p].popen.exit = 1
        /\ HasLintResultObject(loc[p].popen.stdout))
         => /\ loc[p].popen.stdout.lint = "violations" =>
                 /\ loc[p].err = "LintFailure"
                 /\ ErrClass(loc[p].err) = "ActionServerValidationError"
            /\ loc[p].popen.stdout.lint = "unformattable" => loc[p].err = "ListFailed"
    /\ loc[p].err = "LintFailure" =>
         /\ loc[p].popen.exit = 1
         /\ loc[p].popen.stdout.lint = "violations"

\* the import failed with the lint-failure error on exit code 1 and a
\* lint_result that format_lint_results renders
C8_Witness ==
  \E p \in Procs :
    /\ loc[p].pc = "failed"
    /\ loc[p].err = "LintFailure"
    /\ loc[p].popen.exit = 1
    /\ loc[p].popen.stdout.lint = "violations"

\* C9: the list command ends the import with the generic runtime error when it
\* exits with a code other than 0 and 1, or with 1 and a stdout that is not
\* JSON, not a JSON object, or an object without a lint_result object; with
\* exit code 0 and a stdout that is not JSON the import fails with an error that
\* is not the validation error; and exit code 0 with a JSON array of records
\* never fails in the listing, whatever is on stderr.
C9_HardFailureClassification ==
  \A p \in Procs :
    LET l == loc[p]
        out == l.popen.stdout
    IN  /\ (ListingFailed(l) /\ l.popen.exit \notin {0, 1}) =>
             l.err = "ListFailed" /\ ErrClass(l.err) = "RuntimeError"
        /\ (ListingFailed(l) /\ l.popen.exit = 1 /\ ~HasLintResultObject(out)) =>
             l.err = "ListFailed" /\ ErrClass(l.err) = "RuntimeError"
        /\ (ListingFailed(l) /\ l.popen.exit = 0 /\ out.kind = "notjson") =>
             l.err = "JsonLoadFailed" /\ ErrClass(l.err) = "RuntimeError"
        /\ (ListingFailed(l) /\ l.popen.exit = 0 /\ out.kind = "badbytes") =>
             ErrClass(l.err) \notin {"none", "ActionServerValidationError"}
        /\ ~(ListingFailed(l) /\ l.popen.exit = 0 /\ out.kind = "array")

\* exit code 1 with a JSON object that has no lint_result ended the import with
\* the generic runtime error, stderr captured
C9_Witness ==
  \E p \in Procs :
    /\ loc[p].pc = "failed"
    /\ loc[p].err = "ListFailed"
    /\ loc[p].popen.exit = 1
    /\ loc[p].popen.stdout.kind = "object"
    /\ loc[p].popen.stdout.lint = "absent"
    /\ loc[p].popen.stderr

\* a is smaller than b in the lexicographic order of tuples: they agree up to a
\* place where a has ended and b has not, or where a's component is the smaller
LexLess(a, b) ==
  \E i \in 1..Len(b) :
    /\ i <= Len(a) + 1
    /\ \A j \in 1..(i - 1) : a[j] = b[j]
    /\ (i = Len(a) + 1 \/ a[i] < b[i])

\* the step of the version gate of call p
GateStep(p) ==
  LET below == LexLess(loc[p].v, <<0, 0, 7>>)
  IN  /\ below <=> loc'[p].pc = "failed"
      /\ ~below <=> loc'[p].pc = "list"
      /\ below =>
           /\ loc'[p].err = IF loc[p].yaml # "none" THEN "VersionTooOldManifest"
                            ELSE "VersionTooOldNoManifest"
           /\ ErrClass(loc'[p].err) = "ActionServerValidationError"
           /\ loc'[p].v = loc[p].v
           /\ "list" \notin StagesRan(loc'[p])
           /\ <<packages', actions'>> = PreCatalog(loc[p])
      /\ ~below => loc'[p].err = "none"

\* C10: the import is rejected with the version-gate validation error exactly
\* when the parsed version tuple is lexicographically smaller than (0, 0, 7),
\* compared without padding; a rejected import has not run the list command
\* and leaves the catalog unchanged; the message is the one for a present or
\* for an absent manifest.
C10_VersionGate ==
  [][\A p \in Procs : loc[p].pc = "gate" => GateStep(p)]_vars

\* version 0.0.6 was rejected for a package with a manifest, the catalog
\* holding packages
C10_Witness ==
  \E p \in Procs :
    /\ loc[p].pc = "failed"
    /\ loc[p].err = "VersionTooOldManifest"
    /\ loc[p].v = <<0, 0, 6>>
    /\ packages # {}

(***************************************************************************)
(* Properties of packages without a manifest.                              *)
(***************************************************************************)
\* the package row stored under this name (a set: empty when there is none)
RowsWithName(table, name) == {r \in table : r.name = name}

\* C11: a directory with neither action-server.yaml nor conda.yaml.  Not
\* frozen: the provisioner is never called, and a successful import leaves the
\* package row with conda_hash "<unmanaged>" and the JSON of an empty mapping
\* as env_json.  Frozen: the import fails with the validation error and has
\* run nothing but the manifest lookup: no provisioning, no subprocess, no
\* catalog access.
C11_Unmanaged ==
  \A p \in Procs :
    LET l == loc[p]
    IN  /\ l.frozen = {FALSE} =>
             /\ "provision" \notin StagesRan(l)
             /\ l.err \notin {"FrozenNoManifest", "ProvisionFailed", "ProvisionNoResult"}
             /\ l.pc = "done" =>
                  /\ RowsWithName(packages, l.name) # {}
                  /\ \A r \in RowsWithName(packages, l.name) :
                       /\ r.conda_hash = <<"<unmanaged>">>
                       /\ r.env_json = JsonDumps("{}")
        /\ l.frozen = {TRUE} =>
             /\ l.pc = "failed"
             /\ l.err = "FrozenNoManifest"
             /\ ErrClass(l.err) = "ActionServerValidationError"
             /\ l.ran = <<"manifest">>
             /\ l.writes = 0
             /\ Catalog = PreCatalog(l)

\* an import of a directory without a manifest, not frozen, has committed
C11_Witness ==
  \E p \in Procs :
    /\ loc[p].pc = "done"
    /\ loc[p].frozen = {FALSE}
    /\ loc[p].yaml = "none"

\* an import of a directory without a manifest has failed in frozen mode
C11_WitnessFrozen ==
  \E p \in Procs : loc[p].pc = "failed" /\ loc[p].frozen = {TRUE}

(***************************************************************************)
(* Properties of the dependency hash.                                      *)
(***************************************************************************)
RECURSIVE WithoutCommentsAndBlanks(_)
\* a text with its comment lines and its blank lines taken out
WithoutCommentsAndBlanks(text) ==
  IF text = <<>> THEN <<>>
  ELSE (IF Head(text) = "# comment" \/ Head(text) = "" THEN <<>> ELSE <<Head(text)>>)
         \o WithoutCommentsAndBlanks(Tail(text))

\* call p holds the hash of a manifest it read and is about to hand it to the
\* provisioner
HashComputed(p) == loc[p].pc = "provision"

\* C12: two manifests whose texts differ only in comments and blank lines get
\* the same dependency hash, the one handed to the provisioner.
C12_HashOfParsedStructure ==
  \A p, q \in Procs2 :
    (/\ HashComputed(p)
     /\ HashComputed(q)
     /\ WithoutCommentsAndBlanks(loc[p].text) = WithoutCommentsAndBlanks(loc[q].text))
      => loc[p].condahash = loc[q].condahash

\* two calls hold the hashes of two texts that are not the same text and
\* differ only in comments and blank lines
C12_Witness ==
  \E p, q \in Procs2 :
    /\ HashComputed(p)
    /\ HashComputed(q)
    /\ loc[p].text # loc[q].text
    /\ WithoutCommentsAndBlanks(loc[p].text) = WithoutCommentsAndBlanks(loc[q].text)
    /\ loc[p].condahash = loc[q].condahash

\* two calls hold different hashes for manifests with different dependencies
C12_WitnessDifferent ==
  \E p, q \in Procs2 :
    HashComputed(p) /\ HashComputed(q) /\ loc[p].condahash # loc[q].condahash

(***************************************************************************)
(* Properties of the frame of one import.                                  *)
(***************************************************************************)
\* the action rows of table ac owned by packages of table pk that do not have
\* this name
ActionsOfOtherPackages(pk, ac, name) ==
  {a \in ac : \E r \in pk : r.id = a.action_package_id /\ r.name # name}

\* C13: a successful import of a package, with disable_not_imported or
\* without, leaves every action row owned by another package as it was, the
\* enabled flag included.
C13_FramedToPackage ==
  \A p \in Procs :
    loc[p].pc = "done" =>
      \A a \in ActionsOfOtherPackages(loc[p].pre_p, loc[p].pre_a, loc[p].name) :
        a \in actions

(***************************************************************************)
(* Properties of overlapping imports.                                      *)
(***************************************************************************)
\* C14: with two imports of one package name overlapping, their lookups and
\* their write transactions interleaved in any order, the catalog still holds
\* at most one package row per name and no two action rows of one package
\* with the same name.
C14_OverlapKeepsUniqueness ==
  /\ \A r1, r2 \in packages : r1.name = r2.name => r1.id = r2.id
  /\ \A a1, a2 \in actions :
       (a1.action_package_id = a2.action_package_id /\ a1.name = a2.name)
         => a1.id = a2.id

RECURSIVE ReconcileFrom(_, _, _, _, _)
\* the action table and the seen ids after the discovered actions from the
\* k-th on were written for the stored package with this id
ReconcileFrom(ac, seen, l, k, package_id) ==
  IF k > Len(l.acts) THEN [ac |-> ac, seen |-> seen]
  ELSE LET action == [l.acts[k] EXCEPT !.action_package_id = package_id]
           found == {r \in l.by_name : r.name = action.name}
       IN  IF found # {}
           THEN LET old == CHOOSE x \in found : TRUE
                IN  ReconcileFrom(DbUpdateById(ac, old.id, AsDictWithoutId(action)),
                                  seen \cup {old.id}, l, k + 1, package_id)
           ELSE ReconcileFrom(DbInsert(ac, action), seen \cup {action.id}, l, k + 1,
                              package_id)

\* the catalog after the import of call l, run alone on the catalog <<pk, ac>>
ImportedAlone(pk, ac, l) ==
  LET found == DbFirstPackageByName(pk, l.name)
  IN  IF found = {}
      THEN <<pk \cup l.pkg, ac \cup {l.acts[i] : i \in 1..Len(l.acts)}>>
      ELSE LET e == CHOOSE x \in found : TRUE
               by_name == ExistingActionNameToAction(DbSelectActionsOf(ac, e.id))
               written == ReconcileFrom(ac, {}, [l EXCEPT !.by_name = by_name], 1, e.id)
               stale == IF l.disable THEN {r.id : r \in ac} \ written.seen ELSE {}
           IN  <<DbUpdateById(pk, e.id, AsDictWithoutId(CHOOSE x \in l.pkg : TRUE)),
                 {IF r.id \in stale THEN [r EXCEPT !.enabled = FALSE] ELSE r :
                    r \in written.ac}>>

\* the imports of the calls l1 and then l2, each run alone
ImportedInOrder(pk, ac, l1, l2) ==
  LET first == ImportedAlone(pk, ac, l1)
  IN  ImportedAlone(first[1], first[2], l2)

\* a catalog without its generated ids: the package rows, and the action rows
\* with the name of their package in place of its id
WithoutIds(pk, ac) ==
  <<{AsDictWithoutId(r) : r \in pk},
    {[owner |-> {r.name : r \in RowsWithId(pk, a.action_package_id)},
      name |-> a.name, docs |-> a.docs, file |-> a.file, lineno |-> a.lineno,
      input_schema |-> a.input_schema, output_schema |-> a.output_schema,
      enabled |-> a.enabled, is_consequential |-> a.is_consequential] : a \in ac}>>

\* a sequential import leaves the catalog ImportedAlone computes
SequentialImportIsImportedAlone ==
  \A p \in Procs :
    loc[p].pc = "done" => Catalog = ImportedAlone(loc[p].pre_p, loc[p].pre_a, loc[p])

\* C15: when two overlapping imports of different package names have both
\* committed, the catalog is, up to generated ids, the catalog after the two
\* imports run one after the other in one of the two orders.
C15_DifferentNamesSerializable ==
  (/\ loc[1].pc = "done"
   /\ loc[2].pc = "done"
   /\ loc[1].name # loc[2].name)
    => LET pk == loc[1].pre_p
           ac == loc[1].pre_a
           one_two == ImportedInOrder(pk, ac, loc[1], loc[2])
           two_one == ImportedInOrder(pk, ac, loc[2], loc[1])
       IN  WithoutIds(packages, actions) \in
             {WithoutIds(one_two[1], one_two[2]), WithoutIds(two_one[1], two_one[2])}

(***************************************************************************)
(* Properties of the result of one import.                                 *)
(***************************************************************************)
\* the import of call l was the first one of its name
FirstImport(l) == l.pc = "done" /\ RowsWithName(l.pre_p, l.name) = {}

\* C16: when no package row of the imported name was stored, the import adds
\* one package row and one action row per discovered record, each with the id
\* generated for it, and every row stored before is still there unchanged,
\* with disable_not_imported or without.
C16_FirstImportInsertOnly ==
  \A p \in Procs :
    FirstImport(loc[p]) =>
      /\ loc[p].pre_p \subseteq packages
      /\ loc[p].pre_a \subseteq actions
      /\ packages \ loc[p].pre_p = loc[p].pkg
      /\ Cardinality(packages) = Cardinality(loc[p].pre_p) + 1
      /\ actions \ loc[p].pre_a = {loc[p].acts[i] : i \in 1..Len(loc[p].acts)}
      /\ Cardinality(actions) = Cardinality(loc[p].pre_a) + Len(loc[p].acts)

\* a first import with disable_not_imported has committed two actions into a
\* catalog that held an enabled action of another package
C16_Witness ==
  \E p \in Procs :
    /\ FirstImport(loc[p])
    /\ loc[p].disable
    /\ Len(loc[p].acts) = 2
    /\ \E a \in loc[p].pre_a : a.enabled

\* the row of table ac that holds the values of this discovered action for
\* the package with this id, enabled
StoredAsDiscovered(ac, action, package_id) ==
  {a \in ac :
     /\ a.action_package_id = package_id
     /\ a.name = action.name
     /\ a.docs = action.docs
     /\ a.file = action.file
     /\ a.lineno = action.lineno
     /\ a.input_schema = action.input_schema
     /\ a.output_schema = action.output_schema
     /\ a.enabled}

\* C17: after a successful import the package row of the imported name holds
\* the directory, the dependency hash and the environment of this import, and
\* every discovered action record has an enabled action row of that package
\* with its name, docs, file, line and schemas.
C17_ImportPostcondition ==
  \A p \in Procs :
    loc[p].pc = "done" =>
      /\ RowsWithName(packages, loc[p].name) # {}
      /\ \A r \in RowsWithName(packages, loc[p].name) :
           /\ r.directory = Relativize(loc[p].path, DataDir)
           /\ r.conda_hash = loc[p].condahash
           /\ r.env_json = JsonDumps(loc[p].use_env)
           /\ \A i \in 1..Len(loc[p].acts) :
                StoredAsDiscovered(actions, loc[p].acts[i], r.id) # {}

\* C18: every action row is owned by a package row of the catalog; after a
\* re-import of a stored name no action row carries the package id that was
\* generated for the call, and the rows of the discovered actions carry the
\* stored package id.
C18_ReferentialIntegrity ==
  /\ \A a \in actions : RowsWithId(packages, a.action_package_id) # {}
  /\ \A p \in Procs :
       (loc[p].pc = "done" /\ loc[p].existing # {}) =>
         /\ \A a \in actions : \A x \in loc[p].pkg : a.action_package_id # x.id
         /\ \A i \in 1..Len(loc[p].acts) :
              \E a \in actions : \E e \in loc[p].existing :
                a.name = loc[p].acts[i].name /\ a.action_package_id = e.id

\* a re-import has updated one stored action and inserted one new action
C18_Witness ==
  \E p \in Procs :
    /\ loc[p].pc = "done"
    /\ loc[p].existing # {}
    /\ \E i \in 1..Len(loc[p].acts) : RowsWithId(actions, loc[p].acts[i].id) # {}
    /\ \E i \in 1..Len(loc[p].acts) :
         \E old \in loc[p].by_name : old.name = loc[p].acts[i].name

(***************************************************************************)
(* Properties of the order of the stages.                                  *)
(***************************************************************************)
\* the place of a stage in the order of the stages
StageRank(stage) ==
  CASE stage = "manifest"  -> 1
    [] stage = "provision" -> 2
    [] stage = "probe"     -> 3
    [] stage = "list"      -> 4
    [] stage = "reconcile" -> 5

\* the stage an error is raised in ("none": before the first stage)
StageOfError(e) ==
  CASE e \in {"PathMissing", "PathNotDir"} -> "none"
    [] e \in {"FrozenNoManifest", "ManifestInvalidYaml", "ManifestNotDict",
               "ManifestNoDependencies"} -> "manifest"
    [] e \in {"ProvisionFailed", "ProvisionNoResult"} -> "provision"
    [] e \in {"VersionProbeFailed", "VersionTooOldManifest", "VersionTooOldNoManifest"}
         -> "probe"
    [] e \in {"LintFailure", "ListFailed", "JsonLoadFailed", "UnicodeDecodeError",
               "KeyError", "TypeError"} -> "list"
    [] e = "StorageError" -> "reconcile"

\* C19: the stages of one call are entered in the order manifest read,
\* provisioning, version probe, discovery listing, reconciliation, none of them
\* twice; a call that failed has entered no stage after the one that failed;
\* and after a provisioning failure the call has launched neither subprocess
\* and has not reached the catalog.
C19_StageOrder ==
  \A p \in Procs :
    LET l == loc[p]
    IN  /\ \A i, j \in 1..Len(l.ran) : i < j => StageRank(l.ran[i]) < StageRank(l.ran[j])
        /\ l.pc = "failed" =>
             IF StageOfError(l.err) = "none" THEN l.ran = <<>>
             ELSE l.ran # <<>> /\ Last(l.ran) = StageOfError(l.err)
        /\ (l.pc = "failed" /\ l.err \in {"ProvisionFailed", "ProvisionNoResult"}) =>
             /\ l.ran = <<"manifest", "provision">>
             /\ l.popen = NoRun
             /\ l.writes = 0
             /\ Catalog = PreCatalog(l)
        /\ (l.writes > 0 \/ l.pc = "done") =>
             \E k \in {0, 1} :
               l.ran = SubSeq(<<"manifest", "provision", "probe", "list", "reconcile">>,
                              1, 1 + k)
                         \o <<"probe", "list", "reconcile">>

\* the provisioning of an import has failed, with a non-empty catalog
C19_Witness ==
  \E p \in Procs :
    /\ loc[p].pc = "failed"
    /\ loc[p].err = "ProvisionNoResult"
    /\ packages # {}

\* an import has gone through every stage and committed
C19_WitnessAllStages ==
  \E p \in Procs :
    /\ loc[p].pc = "done"
    /\ loc[p].ran = <<"manifest", "provision", "probe", "list", "reconcile">>

====
